---------------------------- MODULE Spec2Model ----------------------------
(***************************************************************************)
(* Model of src/Chatbot.py: a Streamlit script that is re-run on every UI  *)
(* event of a browser tab (a "UI session"), a process-wide dictionary      *)
(* `store` of chat histories keyed by session id, and a LangChain          *)
(* RunnableWithMessageHistory that reads and extends those histories.      *)
(*                                                                         *)
(* Modelling decisions that the source does not spell out:                 *)
(*  - `store` is the process-wide dictionary the comment at line 28        *)
(*    describes: it lives as long as the process and is shared by all      *)
(*    UI sessions.                                                         *)
(*  - uuid.uuid4().hex[:8] is 32 random bits: the model draws the value    *)
(*    from 0..NumIds-1 without memory, as the code does.                   *)
(*  - a text is a tuple of one-character strings, so that lower() and      *)
(*    strip() are computed and not assumed.                                *)
(*  - a script run that calls the model is split in two steps (the call    *)
(*    starts; the stream ends or raises): runs of other UI sessions        *)
(*    interleave between the two, runs of the same UI session do not.      *)
(***************************************************************************)
EXTENDS Integers, Sequences, FiniteSets, TLC

\* ------------------------------------------------------------------ bounds
NumSessions == 2   \* browser tabs that may open during the process run
NumIds      == 2   \* values uuid4().hex[:8] ranges over (stands for 2^32)
NumLangs    == 2   \* how many entries of ALL_LANGUAGES the selectbox offers
MaxSubmits  == 2   \* chat_input submissions in one process run

Sessions == 1..NumSessions

\* ------------------------------------------------------------------ texts
Whitespace == {" ", "\t", "\n", "\r"}

UpperCase == <<"A","B","C","D","E","F","G","H","I","J","K","L","M",
               "N","O","P","Q","R","S","T","U","V","W","X","Y","Z">>
LowerCase == <<"a","b","c","d","e","f","g","h","i","j","k","l","m",
               "n","o","p","q","r","s","t","u","v","w","x","y","z">>

\* str.lower() on one character
LowerChar(c) ==
    IF \E i \in 1..Len(UpperCase) : UpperCase[i] = c
    THEN LowerCase[CHOOSE i \in 1..Len(UpperCase) : UpperCase[i] = c]
    ELSE c

\* str.lower()
Lower(t) == [i \in 1..Len(t) |-> LowerChar(t[i])]

\* str.strip(): drops the whitespace at both ends, keeps it inside
RECURSIVE LStrip(_)
LStrip(t) == IF t # <<>> /\ Head(t) \in Whitespace THEN LStrip(Tail(t)) ELSE t

RECURSIVE RStrip(_)
RStrip(t) ==
    IF t # <<>> /\ t[Len(t)] \in Whitespace
    THEN RStrip(SubSeq(t, 1, Len(t) - 1))
    ELSE t

Strip(t) == RStrip(LStrip(t))

\* the reserved phrase of line 152
FORGET_PHRASE ==
    <<"f","o","r","g","e","t"," ","e","v","e","r","y","t","h","i","n","g">>

\* texts a user submits
Prompts ==
    { <<"H","i">>,
      FORGET_PHRASE,
      <<"\t","F","O","R","G","E","T"," ","E","v","e","r","y","t","h","i","n","g"," ">>,
      <<"f","o","r","g","e","t"," ","e","v","e","r","y","t","h","i","n","g","!">> }

\* texts the model streams back in full (the empty reply included)
Replies == { <<>>, <<"o","k">> }

\* what had been streamed when the stream raised
Partials == { <<>>, <<"o">> }

\* ---------------------------------------------------------------- constants
ALL_LANGUAGES == <<"English", "Hindi", "Spanish", "French", "Japanese", "German">>

Languages == { ALL_LANGUAGES[i] : i \in 1..NumLangs }

WIPED_REPLY ==
    <<"My memory has been completely wiped for this session. What's your name again?">>

WelcomeText(lang) ==
    <<"Hello! I'm GemmaBot. I will respond in **", lang, "**. Ask me anything!">>

NOT_FUNCTIONAL == "Chatbot is not functional. Please check your GROQ_API_KEY."
ERROR_OCCURRED == "An error occurred. Please try again or check the API key."
REPLYING       == "GemmaBot is **replying...**"

\* f"chat_{uuid.uuid4().hex[:8]}" for the 32-bit value n
SessionId(n) == <<"chat_", n>>

Hex8 == 0..(NumIds - 1)

Ids == { SessionId(n) : n \in Hex8 }

NoId == <<"none", 0>>

\* ---------------------------------------------------------------- messages
HumanMessage(t) == [type |-> "human", content |-> t]
AIMessage(t)    == [type |-> "ai", content |-> t]
UiMessage(r, t) == [role |-> r, content |-> t]

VARIABLES
    chatbot_chain,   \* TRUE: the chain was built; FALSE: get_chatbot_chain gave None
    store,           \* the dictionary of line 29: session id -> list of messages
    session_state,   \* per UI session: st.session_state
    run,             \* per UI session: where its script run stands
    shown,           \* per UI session: the notice its last script run rendered
    invocations,     \* number of chatbot_chain.stream calls made so far
    retired,         \* the session ids given up by a language change or a new chat
    submits,         \* number of chat_input submissions so far
    ev               \* the UI event or stream outcome handled by the last step

vars == <<chatbot_chain, store, session_state, run, shown, invocations,
          retired, submits, ev>>


\* ------------------------------------------------------------------- store
\* get_session_history: the dictionary after the call (the key is created
\* with an empty history when it is missing)
get_session_history(st, id) ==
    IF id \in DOMAIN st
    THEN st
    ELSE [k \in (DOMAIN st) \cup {id} |-> IF k = id THEN <<>> ELSE st[k]]

\* get_session_history(id).messages
HistoryMessages(st, id) == get_session_history(st, id)[id]

\* a clear() that leaves the list as it was
ClearHistory_keep(st, id) == get_session_history(st, id)

\* get_session_history(id).clear(): empties the list, keeps the key
ClearHistory(st, id) == [get_session_history(st, id) EXCEPT ![id] = <<>>]

\* RunnableWithMessageHistory._enter_history with no history_messages_key:
\* the stored history followed by the messages the caller passed
EnterHistory(st, id, input_messages) == HistoryMessages(st, id) \o input_messages

\* an exit that saves the rendered prompt, system message included
ExitHistory_rendered(st, id, run_inputs, output) ==
    LET hist == HistoryMessages(st, id)
        rest == SubSeq(run_inputs, Len(hist) + 1, Len(run_inputs))
    IN  [get_session_history(st, id) EXCEPT
            ![id] = hist \o <<[type |-> "system", content |-> <<"system">>]>>
                         \o rest \o <<output>>]

\* RunnableWithMessageHistory._exit_history with no history_messages_key:
\* the first len(history) messages of the run's input are taken to be the
\* history and dropped; the rest and the output are added to the history
ExitHistory(st, id, run_inputs, output) ==
    LET hist == HistoryMessages(st, id)
        rest == SubSeq(run_inputs, Len(hist) + 1, Len(run_inputs))
    IN  [get_session_history(st, id) EXCEPT ![id] = hist \o rest \o <<output>>]

\* ------------------------------------------------------------- the chain
\* max_tokens of the trimmer
MaxTokens == 200

\* tokens of the role prefix get_buffer_string puts before a content
\* ("Human: ", "AI: ", "System: ")
RolePrefixTokens == 2

\* llm.get_num_tokens on the buffer string of one message.  The tokenizer
\* is outside the source: the model counts one token per element of a text.
MessageTokens(m) == RolePrefixTokens + Len(m.content)

\* token_counter=llm: get_num_tokens_from_messages, the sum over the messages
RECURSIVE TokenCount(_)
TokenCount(msgs) ==
    IF msgs = <<>> THEN 0 ELSE MessageTokens(Head(msgs)) + TokenCount(Tail(msgs))

\* messages[::-1]
Reverse(msgs) == [i \in 1..Len(msgs) |-> msgs[Len(msgs) + 1 - i]]

\* the longest prefix that fits max_tokens (0 when not even the first does)
FittingPrefix(msgs) ==
    LET fits == { k \in 0..Len(msgs) : TokenCount(SubSeq(msgs, 1, k)) <= MaxTokens }
    IN  CHOOSE k \in fits : \A j \in fits : j <= k

\* `while idx > 0 and not _is_message_type(messages[idx - 1], end_on)`
RECURSIVE BackToType(_, _, _)
BackToType(msgs, idx, end_on) ==
    IF idx > 0 /\ msgs[idx].type # end_on
    THEN BackToType(msgs, idx - 1, end_on)
    ELSE idx

\* the kept prefix without the end_on step
FirstMaxTokens_anyend(msgs, end_on) == SubSeq(msgs, 1, FittingPrefix(msgs))

\* trim_messages, strategy "first" with allow_partial=False, as the strategy
\* "last" uses it on the reversed list
FirstMaxTokens(msgs, end_on) ==
    SubSeq(msgs, 1, BackToType(msgs, FittingPrefix(msgs), end_on))

\* lines 55-62: trim_messages(max_tokens=200, strategy="last",
\* include_system=True, allow_partial=False, start_on="human")
Trimmer(msgs) ==
    IF msgs = <<>> THEN <<>>
    ELSE IF Head(msgs).type = "system"
    THEN LET kept == FirstMaxTokens(<<Head(msgs)>> \o Reverse(Tail(msgs)), "human")
         IN  IF kept = <<>> THEN <<>> ELSE <<Head(kept)>> \o Reverse(Tail(kept))
    ELSE Reverse(FirstMaxTokens(Reverse(msgs), "human"))

\* the system template of lines 47-50 rendered for `language`
SystemText(language) ==
    <<"You are a helpful assistant. Answer all questions to the best of your ability in ",
      language,
      ". Your name is GemmaBot. The user's input might be in English, but you MUST respond in the selected ",
      language, ".">>

SystemMessage(language) == [type |-> "system", content |-> SystemText(language)]

\* lines 64-70: what chain_with_trimming hands to the model for its input:
\* the prompt's system message, then the trimmed messages
ChainRequest(inputs, language) == <<SystemMessage(language)>> \o Trimmer(inputs)

\* --------------------------------------------------------------- session
NoSession ==
    [has_config |-> FALSE, session_id |-> NoId, language |-> "English",
     messages |-> <<>>]

Idle ==
    [pc |-> "idle", prompt |-> <<>>, inputs |-> <<>>, language |-> "English",
     request |-> <<>>]

\* init_chat_session, with n the value uuid4().hex[:8] returned
init_chat_session(ss, n) ==
    [ss EXCEPT !.has_config = TRUE,
               !.session_id = SessionId(n),
               !.messages   = <<UiMessage("assistant", WelcomeText(ss.language))>>]

\* the comparison without lower() and strip()
IsForgetCommand_exact(prompt) == prompt = FORGET_PHRASE

\* line 152: prompt.lower().strip() == "forget everything"
IsForgetCommand(prompt) == Strip(Lower(prompt)) = FORGET_PHRASE

\* the handler without the check of line 141
ChainMissing_never == FALSE

\* line 141: `if not chatbot_chain`
ChainMissing == ~chatbot_chain

Event(k, s, t) == [kind |-> k, session |-> s, text |-> t]

Init ==
    /\ chatbot_chain \in BOOLEAN
    /\ store = << >>
    /\ session_state = [s \in Sessions |-> NoSession]
    /\ run = [s \in Sessions |-> Idle]
    /\ shown = [s \in Sessions |-> "none"]
    /\ invocations = 0
    /\ retired = {}
    /\ submits = 0
    /\ ev = Event("start", 0, <<>>)

\* lines 96-98: the first script run of a UI session
FirstLoad(s) ==
    /\ ~session_state[s].has_config
    /\ \E n \in Hex8 :
         /\ session_state' = [session_state EXCEPT
                ![s] = init_chat_session([@ EXCEPT !.language = "English"], n)]
    /\ shown' = [shown EXCEPT ![s] = "none"]
    /\ ev' = Event("load", s, <<>>)
    /\ UNCHANGED <<chatbot_chain, store, run, invocations, retired, submits>>

\* lines 119-123 and 127-129: clear the history of the current id, then
\* init_chat_session, then rerun
WipeAndRestart(s, lang, n) ==
    /\ store' = ClearHistory(store, session_state[s].session_id)
    /\ session_state' = [session_state EXCEPT
           ![s] = init_chat_session([@ EXCEPT !.language = lang], n)]
    /\ retired' = retired \cup {session_state[s].session_id}
    /\ shown' = [shown EXCEPT ![s] = "none"]

\* lines 107-123: the selectbox returns another language
LanguageChange(s) ==
    /\ session_state[s].has_config
    /\ run[s].pc = "idle"
    /\ \E lang \in Languages \ {session_state[s].language}, n \in Hex8 :
         WipeAndRestart(s, lang, n)
    /\ ev' = Event("language", s, <<>>)
    /\ UNCHANGED <<chatbot_chain, run, invocations, submits>>

\* lines 125-129: the Start New Chat button
StartNewChat(s) ==
    /\ session_state[s].has_config
    /\ run[s].pc = "idle"
    /\ \E n \in Hex8 : WipeAndRestart(s, session_state[s].language, n)
    /\ ev' = Event("new_chat", s, <<>>)
    /\ UNCHANGED <<chatbot_chain, run, invocations, submits>>

\* lines 141-144: no chain: the error is shown and the script stops
NotFunctional(s) ==
    /\ shown' = [shown EXCEPT ![s] = NOT_FUNCTIONAL]
    /\ UNCHANGED <<store, session_state, run, invocations>>

\* the reserved phrase handled without recording the canned reply
ForgetEverything_silent(s, prompt) ==
    /\ store' = ClearHistory(store, session_state[s].session_id)
    /\ session_state' = [session_state EXCEPT
           ![s].messages = Append(@, UiMessage("user", prompt))]
    /\ shown' = [shown EXCEPT ![s] = "none"]
    /\ UNCHANGED <<run, invocations>>

\* the reserved phrase handled as the Start New Chat button is
ForgetEverything_restart(s, prompt) ==
    /\ store' = ClearHistory(store, session_state[s].session_id)
    /\ \E n \in Hex8 :
         session_state' = [session_state EXCEPT ![s] = init_chat_session(@, n)]
    /\ shown' = [shown EXCEPT ![s] = "none"]
    /\ UNCHANGED <<run, invocations>>

\* lines 147 and 152-157: the reserved phrase
ForgetEverything(s, prompt) ==
    /\ store' = ClearHistory(store, session_state[s].session_id)
    /\ session_state' = [session_state EXCEPT
           ![s].messages = @ \o <<UiMessage("user", prompt),
                                  UiMessage("assistant", WIPED_REPLY)>>]
    /\ shown' = [shown EXCEPT ![s] = "none"]
    /\ UNCHANGED <<run, invocations>>

\* lines 147 and 160-182: the user message is recorded for display, the
\* history is read and the chain is invoked on history + [HumanMessage];
\* run[s].inputs is the input of chain_with_trimming, run[s].request what
\* it sends to the model
StartStream(s, prompt) ==
    LET id   == session_state[s].session_id
        st1  == get_session_history(store, id)
        full_messages_for_chain == st1[id] \o <<HumanMessage(prompt)>>
        inputs == EnterHistory(st1, id, full_messages_for_chain)
    IN  /\ store' = st1
        /\ session_state' = [session_state EXCEPT
               ![s].messages = Append(@, UiMessage("user", prompt))]
        /\ run' = [run EXCEPT ![s] =
               [pc |-> "streaming", prompt |-> prompt,
                inputs |-> inputs,
                language |-> session_state[s].language,
                request |-> ChainRequest(inputs, session_state[s].language)]]
        /\ invocations' = invocations + 1
        /\ shown' = [shown EXCEPT ![s] = REPLYING]

\* lines 140-182: one of `texts` is submitted
ChatInputOf(s, texts) ==
    /\ session_state[s].has_config
    /\ run[s].pc = "idle"
    /\ submits < MaxSubmits
    /\ \E prompt \in texts :
         /\ IF ChainMissing THEN NotFunctional(s)
            ELSE IF IsForgetCommand(prompt) THEN ForgetEverything(s, prompt)
            ELSE StartStream(s, prompt)
         /\ ev' = Event("submit", s, prompt)
    /\ submits' = submits + 1
    /\ UNCHANGED <<chatbot_chain, retired>>

ChatInput(s) == ChatInputOf(s, Prompts)

\* the final append without the `if full_response:` test
AppendResponse_always(ss, full_response) ==
    [ss EXCEPT !.messages = Append(@, UiMessage("assistant", full_response))]

\* lines 194-196: `if full_response:` append it to the display transcript
AppendResponse(ss, full_response) ==
    IF full_response # <<>>
    THEN [ss EXCEPT !.messages = Append(@, UiMessage("assistant", full_response))]
    ELSE ss

\* lines 176-188 and 194-196: the stream ends normally with one of `replies`
StreamCompleteOf(s, replies) ==
    /\ run[s].pc = "streaming"
    /\ \E reply \in replies :
         /\ store' = ExitHistory(store, session_state[s].session_id,
                                 run[s].inputs, AIMessage(reply))
         /\ session_state' = [session_state EXCEPT ![s] = AppendResponse(@, reply)]
         /\ ev' = Event("stream_ok", s, reply)
    /\ run' = [run EXCEPT ![s] = Idle]
    /\ shown' = [shown EXCEPT ![s] = "reply"]
    /\ UNCHANGED <<chatbot_chain, invocations, retired, submits>>

StreamComplete(s) == StreamCompleteOf(s, Replies)

\* an except branch that calls the chain again
OnStreamError_retry(s) ==
    /\ run' = run
    /\ shown' = [shown EXCEPT ![s] = REPLYING]
    /\ invocations' = invocations + 1
    /\ UNCHANGED store

\* an except branch after which the turn is saved as if it had ended
OnStreamError_saved(s) ==
    /\ run' = [run EXCEPT ![s] = Idle]
    /\ shown' = [shown EXCEPT ![s] = ERROR_OCCURRED]
    /\ store' = ExitHistory(store, session_state[s].session_id,
                            run[s].inputs, AIMessage(<<>>))
    /\ UNCHANGED invocations

\* lines 189-191: what the except branch does
OnStreamError(s) ==
    /\ run' = [run EXCEPT ![s] = Idle]
    /\ shown' = [shown EXCEPT ![s] = ERROR_OCCURRED]
    /\ UNCHANGED <<store, invocations>>

\* lines 176-196: the stream raises after `partial` was received
StreamFail(s) ==
    /\ run[s].pc = "streaming"
    /\ \E partial \in Partials :
         /\ session_state' = [session_state EXCEPT ![s] = AppendResponse(@, partial)]
         /\ ev' = Event("stream_fail", s, partial)
    /\ OnStreamError(s)
    /\ UNCHANGED <<chatbot_chain, retired, submits>>

NextOf(S) ==
    \E s \in S :
        \/ FirstLoad(s)
        \/ LanguageChange(s)
        \/ StartNewChat(s)
        \/ ChatInput(s)
        \/ StreamComplete(s)
        \/ StreamFail(s)

Next == NextOf(Sessions)

\* every UI session of the process
Spec == Init /\ [][Next]_vars

\* one UI session alone in the process
NextSingle == NextOf({1})

SpecSingle == Init /\ [][NextSingle]_vars

\* ------------------------------------------------------- long conversations
\* a text of n tokens
Words(n) == [i \in 1..n |-> "w"]

\* prompts and replies long enough for the trimmer to cut
LongPrompts == { Words(2), Words(90), Words(198), Words(199) }

LongReplies == { Words(2), Words(95) }

NextLong ==
    \/ FirstLoad(1)
    \/ ChatInputOf(1, LongPrompts)
    \/ StreamCompleteOf(1, LongReplies)
    \/ StreamFail(1)

\* one UI session whose texts are long
SpecLong == Init /\ [][NextLong]_vars

\* ------------------------------------------------------------ properties
\* Store[id] as a reader sees it: a missing key reads as the empty history
Entry(st, id) == IF id \in DOMAIN st THEN st[id] ELSE <<>>

Transcript(s) == session_state[s].messages

CurrentId(s) == session_state[s].session_id

\* the step just taken is a text submission of UI session s
SubmitStep(s) == ev'.kind = "submit" /\ ev'.session = s

\* ... whose lower-cased, stripped text is the reserved phrase
ForgetStep(s) == SubmitStep(s) /\ Strip(Lower(ev'.text)) = FORGET_PHRASE

\* the display messages the step added to the transcript of s
NewMessages(s) ==
    SubSeq(session_state'[s].messages, Len(Transcript(s)) + 1,
           Len(session_state'[s].messages))

TranscriptExtended(s) ==
    /\ Len(session_state'[s].messages) >= Len(Transcript(s))
    /\ SubSeq(session_state'[s].messages, 1, Len(Transcript(s))) = Transcript(s)

\* the state is the one right after a reserved-phrase submission
AfterForget ==
    /\ ev.kind = "submit"
    /\ Strip(Lower(ev.text)) = FORGET_PHRASE

\* C1: a submission whose lower-cased, stripped text is "forget everything"
\* makes no call of chatbot_chain.stream and starts no stream, whatever the
\* stored history, the language and the credential state.
C1_ForgetNeverInvokes ==
    [][\A s \in Sessions :
          ForgetStep(s) => /\ invocations' = invocations
                           /\ run'[s].pc = "idle"]_vars

\* C1 witness: the phrase in another case and with surrounding whitespace
\* was submitted in Hindi after a turn that had been answered.
C1_Witness ==
    /\ AfterForget
    /\ ev.text # FORGET_PHRASE
    /\ chatbot_chain
    /\ session_state[ev.session].language = "Hindi"
    /\ Len(Transcript(ev.session)) = 5
    /\ invocations = 1

\* C2: once a language change or Start New Chat has replaced the session id
\* S of a UI session, Store[S] is empty and stays empty whatever that UI
\* session does afterwards.
C2_RetiredStaysEmpty == \A id \in retired : Entry(store, id) = <<>>

\* the session ids ever issued: those in use and those given up
IssuedIds ==
    retired \cup { CurrentId(s) : s \in { t \in Sessions : session_state[t].has_config } }

\* the step just taken ran init_chat_session for UI session s
IssueStep(s) == ev'.kind \in {"load", "language", "new_chat"} /\ ev'.session = s

\* C3: every session id issued by init, Start New Chat or a language change
\* differs from every id issued before it in the process run.
C3_IdsNeverReused ==
    [][\A s \in Sessions :
          IssueStep(s) => session_state'[s].session_id \notin IssuedIds]_vars

\* C4: a turn whose stream ends normally appends to Store[current id] the
\* submitted text as one user message, then the reply as one assistant
\* message, and nothing else; on every such turn of a session.
C4_OneExchangeAppended ==
    [][\A s \in Sessions :
          (ev'.kind = "stream_ok" /\ ev'.session = s) =>
              Entry(store', CurrentId(s)) =
                  Entry(store, CurrentId(s))
                      \o <<HumanMessage(run[s].prompt), AIMessage(ev'.text)>>]_vars

\* the display messages with role assistant among those the step added
NewAssistantMessages(s) ==
    { i \in 1..Len(NewMessages(s)) : NewMessages(s)[i].role = "assistant" }

\* the step added exactly one assistant message, the wipe confirmation
OneWipeConfirmation(s) ==
    /\ TranscriptExtended(s)
    /\ Cardinality(NewAssistantMessages(s)) = 1
    /\ \A i \in NewAssistantMessages(s) : NewMessages(s)[i].content = WIPED_REPLY

\* C5 as stated: every submission of the phrase, with or without a model
\* client, appends exactly one new assistant message, the wipe confirmation.
C5_AlwaysConfirmsWipe ==
    [][\A s \in Sessions : ForgetStep(s) => OneWipeConfirmation(s)]_vars

\* C5 amended: with a model client, every submission of the phrase appends
\* the user's text and exactly one assistant message, the wipe confirmation;
\* without one the transcript is left as it was and the error is shown.
C5_ConfirmsWipeWithChain ==
    [][\A s \in Sessions :
          ForgetStep(s) =>
              IF chatbot_chain
              THEN /\ OneWipeConfirmation(s)
                   /\ NewMessages(s) = <<UiMessage("user", ev'.text),
                                         UiMessage("assistant", WIPED_REPLY)>>
              ELSE /\ session_state'[s].messages = Transcript(s)
                   /\ shown'[s] = NOT_FUNCTIONAL]_vars

\* C5 witness: the phrase was submitted twice in a row with a model client,
\* and each submission left its own confirmation.
C5_Witness ==
    /\ AfterForget
    /\ chatbot_chain
    /\ Len(Transcript(ev.session)) = 5
    /\ Transcript(ev.session)[3] = UiMessage("assistant", WIPED_REPLY)
    /\ Transcript(ev.session)[5] = UiMessage("assistant", WIPED_REPLY)

C7_ForgetRotatesId ==
    [][\A s \in Sessions :
          (ForgetStep(s) /\ chatbot_chain) =>
              session_state'[s].session_id # CurrentId(s)]_vars

\* C7 amended: the command empties the store entry of the current id as
\* Start New Chat does, but issues no new id and does not re-seed the
\* transcript: id and language are those before the command.
C7_ForgetKeepsId ==
    [][\A s \in Sessions :
          ForgetStep(s) =>
              /\ Entry(store', CurrentId(s)) = <<>>
              /\ session_state'[s].session_id = CurrentId(s)
              /\ session_state'[s].language = session_state[s].language
              /\ TranscriptExtended(s)
              /\ retired' = retired]_vars

\* C7 witness: the command was handled by a session that still holds the id
\* of its answered turn and still shows that turn.
C7_Witness ==
    /\ AfterForget
    /\ chatbot_chain
    /\ CurrentId(ev.session) \notin retired
    /\ Len(Transcript(ev.session)) = 5
    /\ Transcript(ev.session)[3].role = "assistant"
    /\ Transcript(ev.session)[5].content = WIPED_REPLY

\* the step just taken belongs to UI session s
StepOf(s) == ev'.session = s

\* C8: with several UI sessions interleaved, an event of one session changes
\* neither the store entry nor the display transcript of another session.
C8_SessionsIndependent ==
    [][\A s \in Sessions : \A t \in Sessions \ {s} :
          (StepOf(s) /\ session_state[t].has_config) =>
              /\ session_state'[t] = session_state[t]
              /\ Entry(store', CurrentId(t)) = Entry(store, CurrentId(t))]_vars

\* C9: without a model client every submission is accepted, shows the
\* "not functional" error, calls no model, changes neither the session nor
\* the store, and leaves the session waiting for the next input.
C9_InertWithoutChain ==
    [][\A s \in Sessions :
          (SubmitStep(s) /\ ~chatbot_chain) =>
              /\ shown'[s] = NOT_FUNCTIONAL
              /\ invocations' = invocations
              /\ session_state' = session_state
              /\ session_state'[s].has_config
              /\ store' = store
              /\ run'[s] = Idle]_vars

\* C9 witness: without a model client a second submission was accepted
\* after the first had shown the error.
C9_Witness ==
    /\ ~chatbot_chain
    /\ ev.kind = "submit"
    /\ submits = 2
    /\ shown[ev.session] = NOT_FUNCTIONAL
    /\ run[ev.session].pc = "idle"
    /\ invocations = 0

\* C10: a failed model call is not retried: the chain is called at most once
\* per step and only by a submission; the failure changes neither the session
\* id nor the language and leaves the session waiting for a resubmission.
C10_FailureNotRetried ==
    [][/\ invocations' \in {invocations, invocations + 1}
       /\ invocations' # invocations => ev'.kind = "submit"
       /\ invocations' <= submits'
       /\ \A s \in Sessions :
            (ev'.kind = "stream_fail" /\ ev'.session = s) =>
                /\ invocations' = invocations
                /\ run'[s] = Idle
                /\ shown'[s] = ERROR_OCCURRED
                /\ session_state'[s].has_config
                /\ session_state'[s].session_id = CurrentId(s)
                /\ session_state'[s].language = session_state[s].language]_vars

\* C10 witness: a turn failed before any text arrived (the store entry is
\* still empty and no reply was recorded) and the user's resubmission is
\* being streamed: the second call of the chain for two submissions.
C10_Witness ==
    /\ ev.kind = "submit"
    /\ run[ev.session].pc = "streaming"
    /\ invocations = 2
    /\ submits = 2
    /\ Len(Transcript(ev.session)) = 3
    /\ Transcript(ev.session)[2].role = "user"
    /\ Transcript(ev.session)[3].role = "user"
    /\ Entry(store, CurrentId(ev.session)) = <<>>

\* the step just taken is the failure of the stream of UI session s
FailStep(s) == ev'.kind = "stream_fail" /\ ev'.session = s

\* C11: after a turn whose stream raised, the partial text received so far is
\* appended to the display transcript as an assistant message if and only if
\* it is non-empty; with no fragment received nothing is appended.
C11_PartialKeptIffNonEmpty ==
    [][\A s \in Sessions :
          FailStep(s) =>
              NewMessages(s) =
                  IF ev'.text # <<>>
                  THEN <<UiMessage("assistant", ev'.text)>>
                  ELSE <<>>]_vars

\* C11 witness: one session shows a failed turn that left its partial text
\* and then a failed turn that left nothing.
C11_Witness ==
    /\ ev.kind = "stream_fail"
    /\ ev.text = <<>>
    /\ Len(Transcript(ev.session)) = 4
    /\ Transcript(ev.session)[2].role = "user"
    /\ Transcript(ev.session)[3] = UiMessage("assistant", <<"o">>)
    /\ Transcript(ev.session)[4].role = "user"
    /\ Entry(store, CurrentId(ev.session)) = <<>>

\* the request of the stream UI session s is in
ModelRequest(s) == run[s].request

Streaming(s) == run[s].pc = "streaming"

\* C12: the list submitted to the model is the system instruction naming the
\* selected language, then the trimmed form of (stored history of the current
\* id, then the new user message): every stored message at most once, the
\* new user message last.
C12_RequestIsHistoryThenPrompt ==
    \A s \in Sessions :
        Streaming(s) =>
            ModelRequest(s) =
                <<SystemMessage(session_state[s].language)>>
                    \o Trimmer(Entry(store, CurrentId(s))
                                   \o <<HumanMessage(run[s].prompt)>>)

\* C13: no history held in the store contains a system message; the system
\* instruction is the first message of each request and names the language
\* selected when the request is made.
C13_SystemNeverStored ==
    /\ \A id \in DOMAIN store :
          \A i \in 1..Len(store[id]) : store[id][i].type # "system"
    /\ \A s \in Sessions :
          Streaming(s) =>
              /\ Head(ModelRequest(s)) = SystemMessage(session_state[s].language)
              /\ \A i \in 2..Len(ModelRequest(s)) : ModelRequest(s)[i].type # "system"

\* C13 witness: after a language change to Hindi and an answered turn, the
\* second request carries the Hindi instruction and the stored exchange.
C13_Witness ==
    /\ Streaming(1)
    /\ session_state[1].language = "Hindi"
    /\ invocations = 2
    /\ Len(Entry(store, CurrentId(1))) = 2
    /\ Head(ModelRequest(1)).content = SystemText("Hindi")
    /\ Len(ModelRequest(1)) > 3

\* the trimmed messages of the request of UI session s
Trimmed(s) == Tail(ModelRequest(s))

\* C14: the trimmer's output is non-empty whenever its input is, and the
\* most recent user message is returned whole even when it alone exceeds the
\* budget of 200 tokens.
C14_TrimKeepsLatestMessage ==
    \A s \in Sessions :
        (Streaming(s) /\ run[s].inputs # <<>>) =>
            /\ Trimmed(s) # <<>>
            /\ Trimmed(s)[Len(Trimmed(s))] = HumanMessage(run[s].prompt)

\* `part` is a suffix of `whole`
IsSuffix(part, whole) ==
    /\ Len(part) <= Len(whole)
    /\ SubSeq(whole, Len(whole) - Len(part) + 1, Len(whole)) = part

\* C15: the trimmer's output is a suffix of its input, and its oldest
\* retained message, when there is one, is a user message, never an
\* assistant message.
C15_TrimStartsOnHuman ==
    \A s \in Sessions :
        Streaming(s) =>
            /\ IsSuffix(Trimmed(s), run[s].inputs)
            /\ Trimmed(s) # <<>> => Trimmed(s)[1].type = "human"

\* C15 witness: the last two of five input messages, an assistant message and
\* the new user message, fit the budget together with nothing older, and the
\* output is the user message alone.
C15_Witness ==
    /\ Streaming(1)
    /\ Len(run[1].inputs) = 5
    /\ run[1].inputs[4].type = "ai"
    /\ TokenCount(SubSeq(run[1].inputs, 4, 5)) <= MaxTokens
    /\ TokenCount(SubSeq(run[1].inputs, 3, 5)) > MaxTokens
    /\ Trimmed(1) = <<run[1].inputs[5]>>

\* C16: for every request sent to the model, the tokens of the system
\* instruction plus those of the trimmed messages do not exceed 200.
C16_RequestWithinBudget ==
    \A s \in Sessions : Streaming(s) => TokenCount(ModelRequest(s)) <= MaxTokens

\* no store entry reads differently after the step
EntriesUnchanged == \A id \in Ids : Entry(store', id) = Entry(store, id)

\* C17: a turn whose stream raises leaves the store as it was, from the
\* submission to the failure: the user message goes to the display
\* transcript only, and no partial reply is stored.
C17_FailedTurnNotStored ==
    [][\A s \in Sessions :
          /\ (SubmitStep(s) /\ run'[s].pc = "streaming") =>
                 /\ EntriesUnchanged
                 /\ NewMessages(s) = <<UiMessage("user", ev'.text)>>
          /\ FailStep(s) => EntriesUnchanged]_vars

\* C17 witness: the second turn of a session failed after a fragment had
\* arrived; the transcript shows its user message and the fragment, the
\* store entry still holds the first exchange alone.
C17_Witness ==
    /\ ev.kind = "stream_fail"
    /\ ev.text # <<>>
    /\ Len(Transcript(ev.session)) = 5
    /\ Transcript(ev.session)[4].role = "user"
    /\ Transcript(ev.session)[5] = UiMessage("assistant", ev.text)
    /\ Entry(store, CurrentId(ev.session)) =
           <<HumanMessage(Transcript(ev.session)[2].content),
             AIMessage(Transcript(ev.session)[3].content)>>

\* a display message as the store would hold it
AsStored(m) ==
    IF m.role = "user" THEN HumanMessage(m.content) ELSE AIMessage(m.content)

\* the history `hist` is the transcript `msgs` without its welcome message
Mirrors(hist, msgs) ==
    /\ msgs # <<>>
    /\ hist = [i \in 1..(Len(msgs) - 1) |-> AsStored(msgs[i + 1])]

\* C18: after successful ordinary turns since the last change of id, the
\* store entry of the current id is the display transcript without its
\* welcome message.  Stated step by step: it is so when an id is issued, and
\* a turn answered with a non-empty reply keeps it so.
C18_StoreMirrorsTranscript ==
    [][\A s \in Sessions :
          /\ IssueStep(s) =>
                 Mirrors(Entry(store', session_state'[s].session_id),
                         session_state'[s].messages)
          /\ ( /\ ev'.kind = "stream_ok"
               /\ ev'.session = s
               /\ ev'.text # <<>>
               /\ Mirrors(Entry(store, CurrentId(s)) \o <<HumanMessage(run[s].prompt)>>,
                          Transcript(s)) )
             => Mirrors(Entry(store', CurrentId(s)), session_state'[s].messages)]_vars

====
